---- MODULE Spec2Model ----
(***************************************************************************)
(* Model of package iap (src/iap/iap.go): a client for the IAP tunneling   *)
(* protocol.  One Conn, the two goroutines started by Dial (Conn.read and  *)
(* Conn.write), the callers of Read / Write / Close, the two io.Pipe       *)
(* conduits, the unbuffered channel sendNbCh and the websocket message     *)
(* channel with its peer.                                                  *)
(*                                                                         *)
(* Byte strings are kept as sequences of runs [id, from, len]: the bytes   *)
(* from .. from+len-1 of buffer number id.  Two byte strings are equal     *)
(* exactly when their run sequences, merged where contiguous, are equal,   *)
(* so loss, duplication and reordering of bytes are all visible while      *)
(* buffers keep their real sizes (16384, 20000).                           *)
(*                                                                         *)
(* Counters are uint64 in the code; every value reached here is far below  *)
(* 2^31, so no operation of the model wraps.                               *)
(***************************************************************************)
EXTENDS Integers, Sequences, FiniteSets, TLC

(* -------------------------- program constants -------------------------- *)

subprotoMaxFrameSize == 16384
subprotoTagSuccess == 1
subprotoTagData == 4
subprotoTagAck == 7

(* ------------------------------- bounds -------------------------------- *)

\* frames the peer sends after the handshake frame
MaxFrames == 3
\* Write calls issued by the callers, over all callers
MaxWrites == 2
\* Close calls issued by the callers
MaxCloses == 2
\* inputs of one run: frames after the handshake, Write calls, Close calls
\* and the closure of the connection by the peer
MaxOps == 4

\* a tag that is none of Success, Data, Ack
UnknownTag == 2
\* the Write calls that may be in progress at the same time: a new call
\* takes the first free slot
Writers == {"w1", "w2"}
\* len(buf) of a Write call
WriteLens == {0, 5, 20000}
\* the length field of a Data frame sent by the peer; one is oversized
DataLens == {5, subprotoMaxFrameSize, subprotoMaxFrameSize + 1}
\* the count carried by an Ack frame sent by the peer
AckVals == {5, 20000}
\* session identifiers the peer may assign, each 3 bytes long
SessionIDs == {"abc", "xyz"}
\* len(buf) of a Read call
ReadLens == {16000, subprotoMaxFrameSize}

NoID == "(nil)"

(* ------------------------------- helpers ------------------------------- *)

min(a, b) == IF a < b THEN a ELSE b

\* a run of bytes: bytes from .. from+len-1 of buffer id
Seg(i, f, l) == [id |-> i, from |-> f, len |-> l]

\* append run g to the byte string s
Cat(s, g) ==
    IF g.len = 0 THEN s
    ELSE IF s # <<>> /\ s[Len(s)].id = g.id
                     /\ s[Len(s)].from + s[Len(s)].len = g.from
         THEN [s EXCEPT ![Len(s)].len = @ + g.len]
         ELSE Append(s, g)

RECURSIVE CatAll(_, _)
\* the byte string s followed by the byte string t
CatAll(s, t) == IF t = <<>> THEN s ELSE CatAll(Cat(s, Head(t)), Tail(t))

RECURSIVE Buffers(_, _)
\* the concatenation of whole buffers i, i+1, ... of lengths lens[i], ...
Buffers(lens, i) ==
    IF i > Len(lens) THEN <<>>
    ELSE CatAll(Cat(<<>>, Seg(i, 0, lens[i])), Buffers(lens, i + 1))

RECURSIVE Total(_)
\* number of bytes of a byte string
Total(s) == IF s = <<>> THEN 0 ELSE Head(s).len + Total(Tail(s))

\* byte string a is an initial part of byte string b
IsPrefix(a, b) ==
    \/ a = <<>>
    \/ /\ Len(a) <= Len(b)
       /\ \A i \in 1..(Len(a) - 1) : a[i] = b[i]
       /\ a[Len(a)].id = b[Len(a)].id
       /\ a[Len(a)].from = b[Len(a)].from
       /\ a[Len(a)].len <= b[Len(a)].len

(* ------------------------------- frames -------------------------------- *)

\* a frame received from the peer: tag, length field, session id, ack
\* count, and the payload bytes the message holds after the length field
Frame(t, l, s, v) ==
    [tag |-> t, len |-> l, sid |-> s, val |-> v,
     have |-> IF t = subprotoTagData THEN l ELSE 0]
\* a Data frame whose message ends after h bytes of the l announced
TruncatedFrame(l, h) ==
    [Frame(subprotoTagData, l, NoID, 0) EXCEPT !.have = h]
NoFrame == Frame(0, 0, NoID, 0)

PeerFrames ==
    {Frame(subprotoTagSuccess, 3, s, 0) : s \in SessionIDs}
    \cup {Frame(subprotoTagSuccess, subprotoMaxFrameSize + 1, NoID, 0)}
    \cup {Frame(subprotoTagData, l, NoID, 0) : l \in DataLens}
    \cup {TruncatedFrame(subprotoMaxFrameSize, 5)}
    \cup {Frame(subprotoTagAck, 0, NoID, v) : v \in AckVals}
    \cup {Frame(UnknownTag, 0, NoID, 0)}

\* the frames the peer may send first: it assigns the first session
\* identifier, and may send the other one later
HandshakeFrames == PeerFrames \ {Frame(subprotoTagSuccess, 3, "xyz", 0)}

\* a message the engine sends on the message channel
DataMsg(l, p) == [tag |-> subprotoTagData, len |-> l, payload |-> p, val |-> 0]
AckMsg(v) == [tag |-> subprotoTagAck, len |-> 0, payload |-> <<>>, val |-> v]

(* -------------------------------- state -------------------------------- *)

VARIABLES
    phase,          \* Dial: "handshaking", "connected" (Conn returned), "failed"
    hsFrame,        \* history: the frame Dial's readFrame decoded
    connected,      \* c.connected
    sessionID,      \* c.sessionID
    recvNbAcked,    \* c.recvNbAcked
    recvNbUnacked,  \* c.recvNbUnacked
    sendNbAcked,    \* c.sendNbAcked
    sendNbUnacked,  \* c.sendNbUnacked
    connOpen,       \* the websocket connection is open
    peerClosed,     \* history: the peer, or a failure, closed the connection
    chClosed,       \* sendNbCh has been closed
    crashed,        \* the process died of a runtime panic
    wlock,          \* who holds the websocket's single message writer
    wire,           \* messages the open connection accepted, in order
    rpc,            \* goroutine Conn.read: where it is
    rwhy,           \* why Conn.read ended
    rfr,            \* the frame Conn.read's readFrame received last
    rrem,           \* bytes of that Data frame not yet written to recvWriter
    nrecv,          \* frames received after the handshake
    rcvd,           \* history: lengths of the Data frames accepted, in order
    rpay,           \* history: the payload bytes these frames held, in order
    peerHonest,     \* history: every frame received so far was an honest one
    rdpc,           \* the caller of Read: "idle" or "blocked"
    readOut,        \* history: the bytes Read calls returned, in order
    wpc,            \* goroutine Conn.write: where it is
    nb,             \* writeFrame's nb
    nbLimit,        \* writeFrame's nbLimit
    fleft,          \* bytes copyNBuffer still has to copy into the frame
    fbuf,           \* payload copied into the open message so far
    wr,             \* per Write call in progress: pc, buffer number, len(buf),
                    \* bytes of it already taken from the send pipe
    writes,         \* history: len(buf) of every Write call, in call order
    overlap,        \* history: some Write began while another was in progress
    clpc,           \* the caller of Close: "idle" or "conn"
    ncloses         \* Close calls begun

connVars == <<connected, sessionID, recvNbAcked, recvNbUnacked, sendNbAcked,
              sendNbUnacked>>
chanVars == <<connOpen, peerClosed, chClosed, crashed, wlock, wire>>
inVars == <<rpc, rwhy, rfr, rrem, nrecv, rcvd, rpay, peerHonest>>
rdVars == <<rdpc, readOut>>
outVars == <<wpc, nb, nbLimit, fleft, fbuf>>
wrVars == <<wr, writes, overlap>>
clVars == <<clpc, ncloses>>
vars == <<phase, hsFrame, connVars, chanVars, inVars, rdVars, outVars, wrVars,
          clVars>>

IdleWrite == [pc |-> "idle", id |-> 0, len |-> 0, off |-> 0]

Init ==
    /\ phase = "handshaking"
    /\ hsFrame = NoFrame
    /\ connected = FALSE
    /\ sessionID = NoID
    /\ recvNbAcked = 0
    /\ recvNbUnacked = 0
    /\ sendNbAcked = 0
    /\ sendNbUnacked = 0
    /\ connOpen = TRUE
    /\ peerClosed = FALSE
    /\ chClosed = FALSE
    /\ crashed = FALSE
    /\ wlock = "none"
    /\ wire = <<>>
    /\ rpc = "idle"
    /\ rwhy = "running"
    /\ rfr = NoFrame
    /\ rrem = 0
    /\ nrecv = 0
    /\ rcvd = <<>>
    /\ rpay = <<>>
    /\ peerHonest = TRUE
    /\ rdpc = "idle"
    /\ readOut = <<>>
    /\ wpc = "idle"
    /\ nb = 0
    /\ nbLimit = 0
    /\ fleft = 0
    /\ fbuf = <<>>
    /\ wr = [w \in Writers |-> IdleWrite]
    /\ writes = <<>>
    /\ overlap = FALSE
    /\ clpc = "idle"
    /\ ncloses = 0

\* the process is alive and Dial has returned a Conn
Live == ~crashed /\ phase = "connected"

\* the run may take one more input from its environment
MoreInput ==
    nrecv + Len(writes) + ncloses + (IF peerClosed THEN 1 ELSE 0) < MaxOps

\* the Data messages completed on the channel, in order
WireData == SelectSeq(wire, LAMBDA m : m.tag = subprotoTagData)

RECURSIVE Payloads(_)
\* the payloads of Data messages ms, concatenated in order
Payloads(ms) ==
    IF ms = <<>> THEN <<>>
    ELSE CatAll(Head(ms).payload, Payloads(Tail(ms)))

\* an Ack frame of an honest peer acknowledges no more than the bytes of
\* the Data messages it was sent
HonestFrame(f) ==
    f.tag = subprotoTagAck => f.val <= Total(Payloads(WireData))

(* ------------------------------ accessors ------------------------------ *)

SessionID == sessionID
Sent == sendNbAcked
Received == recvNbAcked

(* ------------------------- readFrame and Dial -------------------------- *)

\* mutant of lenExceeds: the limit is the ack threshold
lenExceedsTwice(l) == l > 2 * subprotoMaxFrameSize

\* readSuccessFrame / readDataFrame: the length field is refused
lenExceeds(l) == l > subprotoMaxFrameSize

\* mutant of ackDue: the threshold itself already triggers the Ack
ackDueAtThreshold(unacked, acked) ==
    unacked - acked >= 2 * subprotoMaxFrameSize

\* readFrame: the flow-control test made after a Data frame
ackDue(unacked, acked) == unacked - acked > 2 * subprotoMaxFrameSize

\* mutant of readFrameKind: frames are decoded before the handshake too
readFrameKindAnyTime(f) ==
    IF f.tag = subprotoTagSuccess
    THEN IF lenExceeds(f.len) THEN "error" ELSE "success"
    ELSE IF f.tag = subprotoTagAck THEN "ack"
    ELSE IF f.tag = subprotoTagData
         THEN IF lenExceeds(f.len) THEN "dataerror" ELSE "data"
    ELSE "ignored"

\* mutant of readFrameKind: an unknown tag is a protocol error
readFrameKindStrict(f) ==
    IF f.tag = subprotoTagSuccess
    THEN IF lenExceeds(f.len) THEN "error" ELSE "success"
    ELSE IF ~connected THEN "error"
    ELSE IF f.tag = subprotoTagAck THEN "ack"
    ELSE IF f.tag = subprotoTagData
         THEN IF lenExceeds(f.len) THEN "dataerror" ELSE "data"
    ELSE "error"

\* readFrame: the branch frame f takes
readFrameKind(f) ==
    IF f.tag = subprotoTagSuccess
    THEN IF lenExceeds(f.len) THEN "error" ELSE "success"
    ELSE IF ~connected THEN "error"
    ELSE IF f.tag = subprotoTagAck THEN "ack"
    ELSE IF f.tag = subprotoTagData
         THEN IF lenExceeds(f.len) THEN "dataerror" ELSE "data"
    ELSE "ignored"

\* readSuccessFrame / readAckFrame: the fields a frame of kind k assigns
readSuccessFrame(f, k) ==
    /\ sessionID' = IF k = "success" THEN f.sid ELSE sessionID
    /\ connected' = (connected \/ k = "success")

readAckFrame(f, k) ==
    sendNbAcked' = IF k = "ack" THEN f.val ELSE sendNbAcked

\* Dial: one synchronous readFrame, then the two goroutines are started
Dial ==
    /\ phase = "handshaking"
    /\ ~crashed
    /\ \/ /\ ~connOpen
          /\ phase' = "failed"
          /\ UNCHANGED <<hsFrame, connVars, inVars, outVars>>
       \/ /\ connOpen
          /\ \E f \in HandshakeFrames :
                LET k == readFrameKind(f) IN
                /\ hsFrame' = f
                /\ readSuccessFrame(f, k)
                /\ readAckFrame(f, k)
                /\ IF k \in {"error", "dataerror"}
                   THEN /\ phase' = "failed"
                        /\ UNCHANGED <<rpc, wpc>>
                   ELSE /\ phase' = "connected"
                        /\ rpc' = "recv"
                        /\ wpc' = "wait"
          /\ UNCHANGED <<recvNbAcked, recvNbUnacked, sendNbUnacked, rwhy, rfr,
                         rrem, nrecv, rcvd, rpay, peerHonest, nb, nbLimit, fleft,
                         fbuf>>
    /\ UNCHANGED <<chanVars, rdVars, wrVars, clVars>>

(* ------------------------- goroutine Conn.read ------------------------- *)

\* readFrame: c.conn.Reader returns the next message, or fails because
\* the connection is closed; the tag is read
readFrame ==
    /\ Live
    /\ rpc = "recv"
    /\ \/ /\ ~connOpen
          /\ rpc' = "done"
          /\ rwhy' = "transport"
          /\ UNCHANGED <<rfr, nrecv, peerHonest>>
       \/ /\ connOpen
          /\ nrecv < MaxFrames
          /\ MoreInput
          /\ \E f \in PeerFrames :
                /\ rfr' = f
                /\ peerHonest' = (peerHonest /\ HonestFrame(f))
          /\ nrecv' = nrecv + 1
          /\ rpc' = "switch"
          /\ UNCHANGED rwhy
    /\ UNCHANGED <<phase, hsFrame, connVars, chanVars, rrem, rcvd, rpay, rdVars,
                   outVars, wrVars, clVars>>

\* readFrame: the switch on the tag, with readSuccessFrame, readAckFrame
\* and readDataFrame up to its copy; after a Data frame that failed to
\* decode the threshold test still runs
readFrameSwitch ==
    /\ Live
    /\ rpc = "switch"
    /\ LET f == rfr
           k == readFrameKind(f)
       IN
       /\ readSuccessFrame(f, k)
       /\ readAckFrame(f, k)
       /\ rcvd' = IF k = "data" THEN Append(rcvd, f.len) ELSE rcvd
       /\ rpay' = IF k = "data" THEN Append(rpay, f.have) ELSE rpay
       /\ rrem' = IF k = "data" THEN f.have ELSE rrem
       /\ rwhy' = IF k \in {"error", "dataerror"} THEN "protocol" ELSE rwhy
       /\ rpc' = CASE k = "data" -> IF f.have = 0 THEN "count" ELSE "copy"
                   [] k = "dataerror" ->
                        IF ackDue(recvNbUnacked, recvNbAcked)
                        THEN "ack" ELSE "done"
                   [] k = "error" -> "done"
                   [] OTHER -> "recv"
    /\ UNCHANGED <<phase, hsFrame, recvNbAcked, recvNbUnacked, sendNbUnacked,
                   chanVars, rfr, nrecv, peerHonest, rdVars, outVars, wrVars,
                   clVars>>

\* the bytes one Read takes from the receive pipe
readTake(buflen, offered) == min(buflen, offered)

\* readDataFrame's copyNBuffer: recvWriter.Write hands bytes to a blocked
\* Read (io.Pipe: the write returns when readers took every byte)
readDataFrameCopy ==
    /\ Live
    /\ rpc = "copy"
    /\ rdpc = "blocked"
    /\ \E buflen \in ReadLens :
          LET k == readTake(buflen, rrem) IN
          /\ readOut' = Cat(readOut, Seg(Len(rcvd), rfr.have - rrem, k))
          /\ rrem' = rrem - k
          /\ rpc' = IF rrem - k = 0 THEN "count" ELSE "copy"
    /\ rdpc' = "idle"
    /\ UNCHANGED <<phase, hsFrame, connVars, chanVars, rwhy, rfr, nrecv, rcvd,
                   rpay, peerHonest, outVars, wrVars, clVars>>

\* readDataFrame: c.recvNbUnacked += len; readFrame: the threshold test
readDataFrameCount ==
    /\ Live
    /\ rpc = "count"
    /\ recvNbUnacked' = recvNbUnacked + rfr.len
    /\ rpc' = IF ackDue(recvNbUnacked + rfr.len, recvNbAcked)
              THEN "ack" ELSE "recv"
    /\ UNCHANGED <<phase, hsFrame, connected, sessionID, recvNbAcked,
                   sendNbAcked, sendNbUnacked, chanVars, rwhy, rfr, rrem,
                   nrecv, rcvd, rpay, peerHonest, rdVars, outVars, wrVars, clVars>>

\* mutant of writeAckOpen: c.conn.Writer does not wait for the message
\* writer to be free
writeAckOpenNoWait ==
    /\ Live
    /\ rpc = "ack"
    /\ \/ /\ ~connOpen
          /\ rpc' = "done"
          /\ rwhy' = IF rwhy = "running" THEN "ackfail" ELSE rwhy
          /\ UNCHANGED wlock
       \/ /\ connOpen
          /\ wlock' = "in"
          /\ rpc' = "ackw"
          /\ UNCHANGED rwhy
    /\ UNCHANGED <<phase, hsFrame, connVars, connOpen, peerClosed, chClosed, crashed,
                   wire, rfr, rrem, nrecv, rcvd, rpay, peerHonest, rdVars, outVars,
                   wrVars, clVars>>

\* writeAck: c.conn.Writer, which waits for the single message writer
writeAckOpen ==
    /\ Live
    /\ rpc = "ack"
    /\ \/ /\ ~connOpen
          /\ rpc' = "done"
          /\ rwhy' = IF rwhy = "running" THEN "ackfail" ELSE rwhy
          /\ UNCHANGED wlock
       \/ /\ connOpen
          /\ wlock = "none"
          /\ wlock' = "in"
          /\ rpc' = "ackw"
          /\ UNCHANGED rwhy
    /\ UNCHANGED <<phase, hsFrame, connVars, connOpen, peerClosed, chClosed, crashed,
                   wire, rfr, rrem, nrecv, rcvd, rpay, peerHonest, rdVars, outVars,
                   wrVars, clVars>>

\* writeAck: the Ack message is written and closed, the errors of a
\* closed connection dropped; readFrame: c.recvNbAcked = c.recvNbUnacked
writeAck ==
    /\ Live
    /\ rpc = "ackw"
    /\ wire' = IF connOpen THEN Append(wire, AckMsg(recvNbUnacked)) ELSE wire
    /\ wlock' = "none"
    /\ recvNbAcked' = recvNbUnacked
    /\ rpc' = IF rwhy = "running" THEN "recv" ELSE "done"
    /\ UNCHANGED <<phase, hsFrame, connected, sessionID, recvNbUnacked,
                   sendNbAcked, sendNbUnacked, connOpen, peerClosed, chClosed,
                   crashed,
                   rwhy, rfr, rrem, nrecv, rcvd, rpay, peerHonest, rdVars, outVars,
                   wrVars, clVars>>

(* ------------------------------ Conn.Read ------------------------------ *)

\* a caller enters Read(buf): c.recvReader.Read blocks until bytes come
Read ==
    /\ Live
    /\ rdpc = "idle"
    /\ rdpc' = "blocked"
    /\ UNCHANGED <<phase, hsFrame, connVars, chanVars, inVars, readOut,
                   outVars, wrVars, clVars>>

(* ------------------------------ Conn.Write ----------------------------- *)

\* the slot a new Write call takes
FreeSlot == IF wr["w1"].pc = "idle" THEN "w1" ELSE "w2"

\* mutant of Offering: a Write enters the send pipe without waiting for
\* its announcement to be received
OfferingUnannounced ==
    IF \E w \in Writers : wr[w].pc = "offer"
    THEN {w \in Writers : wr[w].pc = "offer"}
    ELSE {w \in Writers : wr[w].pc \in {"send", "pipe"}}

\* the Write calls c.sendReader.Read can take bytes from: the one holding
\* the send pipe's write mutex (part of its buffer is taken), else any
\* that has entered c.sendWriter.Write
Offering ==
    IF \E w \in Writers : wr[w].pc = "offer"
    THEN {w \in Writers : wr[w].pc = "offer"}
    ELSE {w \in Writers : wr[w].pc = "pipe"}

\* a caller enters Write(buf) and reaches c.sendNbCh <- len(buf)
Write(w) ==
    /\ Live
    /\ wr[w].pc = "idle"
    /\ w = FreeSlot
    /\ Len(writes) < MaxWrites
    /\ MoreInput
    /\ \E n \in WriteLens :
          /\ wr' = [wr EXCEPT ![w] = [pc |-> "send", id |-> Len(writes) + 1,
                                      len |-> n, off |-> 0]]
          /\ writes' = Append(writes, n)
    /\ overlap' = (overlap \/ \E v \in Writers \ {w} : wr[v].pc # "idle")
    /\ UNCHANGED <<phase, hsFrame, connVars, chanVars, inVars, rdVars,
                   outVars, clVars>>

\* c.sendNbCh <- len(buf) on the closed channel: a runtime panic
WritePanic(w) ==
    /\ Live
    /\ wr[w].pc = "send"
    /\ chClosed
    /\ crashed' = TRUE
    /\ UNCHANGED <<phase, hsFrame, connVars, connOpen, peerClosed, chClosed, wlock, wire,
                   inVars, rdVars, outVars, wrVars, clVars>>

(* ------------------------ goroutine Conn.write ------------------------- *)

\* writeFrame: nb, ok := <-c.sendNbCh meets the send of Write call w
writeFrameRecv(w) ==
    /\ Live
    /\ wpc = "wait"
    /\ ~chClosed
    /\ wr[w].pc = "send"
    /\ nb' = wr[w].len
    /\ wr' = [wr EXCEPT ![w].pc = "pipe"]
    /\ wpc' = IF wr[w].len > 0 THEN "open" ELSE "wait"
    /\ UNCHANGED <<phase, hsFrame, connVars, chanVars, inVars, rdVars,
                   nbLimit, fleft, fbuf, writes, overlap, clVars>>

\* writeFrame: the channel is closed, return io.EOF; Conn.write ends
writeFrameEOF ==
    /\ Live
    /\ wpc = "wait"
    /\ chClosed
    /\ wpc' = "done"
    /\ UNCHANGED <<phase, hsFrame, connVars, chanVars, inVars, rdVars, nb,
                   nbLimit, fleft, fbuf, wrVars, clVars>>

\* mutant of clamp: the frame is not clamped to the maximum frame size
clampNone(n) == n

\* mutant of clamp: the limit is one byte short
clampShort(n) == min(n, subprotoMaxFrameSize - 1)

\* writeFrame: nbLimit := min(nb, subprotoMaxFrameSize)
clamp(n) == min(n, subprotoMaxFrameSize)

\* writeFrame: the head of the loop, nbLimit and c.conn.Writer
writeFrameOpen ==
    /\ Live
    /\ wpc = "open"
    /\ nbLimit' = clamp(nb)
    /\ \/ /\ ~connOpen
          /\ wpc' = "done"
          /\ UNCHANGED <<wlock, fleft, fbuf>>
       \/ /\ connOpen
          /\ wlock = "none"
          /\ wlock' = "out"
          /\ fleft' = clamp(nb)
          /\ fbuf' = <<>>
          /\ wpc' = "copy"
    /\ UNCHANGED <<phase, hsFrame, connVars, connOpen, peerClosed, chClosed, crashed,
                   wire, inVars, rdVars, nb, wrVars, clVars>>

\* the bytes one read of the send pipe takes: io.LimitReader bounds the
\* read by what the frame still needs, the pipe by what the Write offers
pipeTake(need, offered) == min(need, offered)

\* writeFrame's copyNBuffer: one c.sendReader.Read, which takes bytes from
\* the Write holding the pipe (that Write returns once all were taken),
\* and the write of these bytes to the message, which fails when the
\* connection is closed: writeFrame returns the error, Conn.write ends
writeFrameCopy ==
    /\ Live
    /\ wpc = "copy"
    /\ \E w \in Offering :
          LET k == pipeTake(fleft, wr[w].len - wr[w].off) IN
          /\ IF connOpen
             THEN /\ fbuf' = Cat(fbuf, Seg(wr[w].id, wr[w].off, k))
                  /\ fleft' = fleft - k
                  /\ wpc' = IF fleft - k = 0 THEN "close" ELSE "copy"
             ELSE /\ wpc' = "done"
                  /\ UNCHANGED <<fbuf, fleft>>
          /\ wr' = IF wr[w].off + k = wr[w].len
                   THEN [wr EXCEPT ![w] = IdleWrite]
                   ELSE [wr EXCEPT ![w].pc = "offer", ![w].off = @ + k]
    /\ UNCHANGED <<phase, hsFrame, connVars, chanVars, inVars, rdVars, nb,
                   nbLimit, writes, overlap, clVars>>

\* writeFrame: writer.Close() completes the Data message; its error, on
\* a closed connection, is dropped
writeFrameClose ==
    /\ Live
    /\ wpc = "close"
    /\ wire' = IF connOpen THEN Append(wire, DataMsg(nbLimit, fbuf)) ELSE wire
    /\ wlock' = "none"
    /\ fbuf' = <<>>
    /\ wpc' = "count"
    /\ UNCHANGED <<phase, hsFrame, connVars, connOpen, peerClosed, chClosed, crashed,
                   inVars, rdVars, nb, nbLimit, fleft, wrVars, clVars>>

\* mutant of writeFrameCount: the outbound loop also marks the bytes as
\* acknowledged
writeFrameCountSelfAck ==
    /\ Live
    /\ wpc = "count"
    /\ sendNbUnacked' = sendNbUnacked + nbLimit
    /\ sendNbAcked' = sendNbUnacked + nbLimit
    /\ nb' = nb - nbLimit
    /\ nbLimit' = 0
    /\ wpc' = IF nb - nbLimit > 0 THEN "open" ELSE "wait"
    /\ UNCHANGED <<phase, hsFrame, connected, sessionID, recvNbAcked,
                   recvNbUnacked, chanVars, inVars, rdVars, fleft, fbuf,
                   wrVars, clVars>>

\* mutant of writeFrameCount: the counter is set to the frame's size
writeFrameCountAssign ==
    /\ Live
    /\ wpc = "count"
    /\ sendNbUnacked' = nbLimit
    /\ nb' = nb - nbLimit
    /\ nbLimit' = 0
    /\ wpc' = IF nb - nbLimit > 0 THEN "open" ELSE "wait"
    /\ UNCHANGED <<phase, hsFrame, connected, sessionID, recvNbAcked,
                   recvNbUnacked, sendNbAcked, chanVars, inVars, rdVars,
                   fleft, fbuf, wrVars, clVars>>

\* mutant of writeFrameCount: the whole announced count is added at once
writeFrameCountAll ==
    /\ Live
    /\ wpc = "count"
    /\ sendNbUnacked' = sendNbUnacked + nb
    /\ nb' = nb - nbLimit
    /\ nbLimit' = 0
    /\ wpc' = IF nb - nbLimit > 0 THEN "open" ELSE "wait"
    /\ UNCHANGED <<phase, hsFrame, connected, sessionID, recvNbAcked,
                   recvNbUnacked, sendNbAcked, chanVars, inVars, rdVars,
                   fleft, fbuf, wrVars, clVars>>

\* writeFrame: c.sendNbUnacked += nbLimit; nb -= nbLimit; loop or return
writeFrameCount ==
    /\ Live
    /\ wpc = "count"
    /\ sendNbUnacked' = sendNbUnacked + nbLimit
    /\ nb' = nb - nbLimit
    /\ nbLimit' = 0
    /\ wpc' = IF nb - nbLimit > 0 THEN "open" ELSE "wait"
    /\ UNCHANGED <<phase, hsFrame, connected, sessionID, recvNbAcked,
                   recvNbUnacked, sendNbAcked, chanVars, inVars, rdVars,
                   fleft, fbuf, wrVars, clVars>>

(* ------------------------------ Conn.Close ----------------------------- *)

\* Close: close(c.sendNbCh); closing it a second time is a runtime panic
Close ==
    /\ Live
    /\ clpc = "idle"
    /\ ncloses < MaxCloses
    /\ MoreInput
    /\ ncloses' = ncloses + 1
    /\ IF chClosed
       THEN /\ crashed' = TRUE
            /\ UNCHANGED <<chClosed, clpc>>
       ELSE /\ chClosed' = TRUE
            /\ clpc' = "conn"
            /\ UNCHANGED crashed
    /\ UNCHANGED <<phase, hsFrame, connVars, connOpen, peerClosed, wlock, wire,
                   inVars, rdVars, outVars, wrVars>>

\* Close: c.conn.Close(StatusNormalClosure, ...)
CloseConn ==
    /\ Live
    /\ clpc = "conn"
    /\ connOpen' = FALSE
    /\ clpc' = "idle"
    /\ UNCHANGED <<phase, hsFrame, connVars, peerClosed, chClosed, crashed, wlock, wire,
                   inVars, rdVars, outVars, wrVars, ncloses>>

\* the peer, or a transport failure, closes the websocket connection
PeerClose ==
    /\ ~crashed
    /\ connOpen
    /\ MoreInput
    /\ connOpen' = FALSE
    /\ peerClosed' = TRUE
    /\ UNCHANGED <<phase, hsFrame, connVars, chClosed, crashed, wlock, wire,
                   inVars, rdVars, outVars, wrVars, clVars>>

(* ---------------------------- specification ---------------------------- *)

Next ==
    \/ Dial
    \/ readFrame
    \/ readFrameSwitch
    \/ readDataFrameCopy
    \/ readDataFrameCount
    \/ writeAckOpen
    \/ writeAck
    \/ Read
    \/ \E w \in Writers : Write(w)
    \/ \E w \in Writers : WritePanic(w)
    \/ \E w \in Writers : writeFrameRecv(w)
    \/ writeFrameEOF
    \/ writeFrameOpen
    \/ writeFrameCopy
    \/ writeFrameClose
    \/ writeFrameCount
    \/ Close
    \/ CloseConn
    \/ PeerClose

Spec == Init /\ [][Next]_vars

\* the steps of goroutine Conn.read
readLoop ==
    \/ readFrame
    \/ readFrameSwitch
    \/ readDataFrameCopy
    \/ readDataFrameCount
    \/ writeAckOpen
    \/ writeAck

\* the steps of goroutine Conn.write
writeLoop ==
    \/ \E w \in Writers : writeFrameRecv(w)
    \/ writeFrameEOF
    \/ writeFrameOpen
    \/ writeFrameCopy
    \/ writeFrameClose
    \/ writeFrameCount

\* the steps a caller takes inside a call it has begun
callerStep ==
    \/ Dial
    \/ CloseConn
    \/ \E w \in Writers : WritePanic(w)

\* The Go scheduler runs every goroutine that can take a step; callers are
\* free never to begin another call.
FairSpec ==
    /\ Init
    /\ [][Next]_vars
    /\ WF_vars(readLoop)
    /\ WF_vars(writeLoop)
    /\ WF_vars(callerStep)

(* ------------------------------- claims -------------------------------- *)

\* C1: a Read blocked with no bytes available, once Close has been called
\* or the inbound loop has terminated, eventually returns (with an
\* end-of-stream indication); it never stays blocked forever.
C1_BlockedReadReturns ==
    (rdpc = "blocked" /\ ~crashed /\ (ncloses > 0 \/ rpc = "done"))
        ~> (rdpc # "blocked" \/ crashed)

\* every Write call has returned and Conn.write waits for the next one
WritesDone == wpc = "wait" /\ \A w \in Writers : wr[w].pc = "idle"

\* C2: for Write calls issued one after another, the payloads of the Data
\* frames on the wire, concatenated in send order, are the Write buffers
\* concatenated in call order (an initial part of them while a Write is
\* in progress or after the transport stopped accepting messages), and
\* every Data frame carries at most 16384 bytes, as many as its length
\* field says.
C2_SequentialWrites ==
    /\ \A i \in 1..Len(WireData) :
          /\ WireData[i].len <= 16384
          /\ Total(WireData[i].payload) = WireData[i].len
    /\ ~overlap => IsPrefix(Payloads(WireData), Buffers(writes, 1))
    /\ (~overlap /\ WritesDone /\ connOpen) =>
          Payloads(WireData) = Buffers(writes, 1)

\* two sequential Writes, the first split over two frames, are on the wire
C2_Witness ==
    /\ ~overlap
    /\ WritesDone
    /\ connOpen
    /\ Len(writes) = 2
    /\ Len(WireData) >= 3
    /\ writes[2] > 0

\* C3 as claimed: once the Writes are fully transmitted, Sent() is the
\* number of bytes transmitted, whatever the peer did.
C3_SentReachesTransmitted ==
    (WritesDone /\ Len(writes) > 0) => Sent = Total(Payloads(WireData))

\* C3 amended: once the Writes are fully transmitted, send-unacknowledged
\* is the number of bytes transmitted in Data frames; Sent() is
\* send-acknowledged, which changes only when readFrame decodes an Ack
\* frame, to the count that frame carries (so it is 0 while the peer has
\* sent no Ack).
C3_UnackedReachesTransmitted ==
    [][ /\ (WritesDone' /\ connOpen') =>
              sendNbUnacked' = Total(Payloads(WireData'))
        /\ Sent' # Sent =>
              /\ rpc = "switch"
              /\ rfr.tag = subprotoTagAck
              /\ Sent' = rfr.val ]_vars

\* one Write of 20000 bytes is on the wire as two frames, unacknowledged
C3_Witness ==
    /\ WritesDone
    /\ connOpen
    /\ writes = <<20000>>
    /\ Len(WireData) = 2
    /\ sendNbUnacked = 20000
    /\ Sent = 0

\* the Data messages carrying bytes of Write call i, in order
FramesOf(i) ==
    SelectSeq(WireData,
              LAMBDA m : \E j \in 1..Len(m.payload) : m.payload[j].id = i)

RECURSIVE Sum(_)
\* the sum of a sequence of numbers
Sum(ns) == IF ns = <<>> THEN 0 ELSE Head(ns) + Sum(Tail(ns))

\* the bytes of an n-byte buffer that its k-th frame carries
ChunkLen(n, k) ==
    min(subprotoMaxFrameSize, n - subprotoMaxFrameSize * (k - 1))

\* C4: the k-th Data frame of a Write of n bytes carries exactly the bytes
\* of the buffer from 16384*(k-1) on, 16384 of them or what is left; once
\* the Write is transmitted (the transport accepting messages) there are
\* ceil(n/16384) such frames, and send-unacknowledged has grown by n for
\* every Write.
C4_Chunking ==
    /\ \A i \in 1..Len(writes) :
          LET n == writes[i]
              fs == FramesOf(i)
          IN  /\ \A k \in 1..Len(fs) :
                    /\ fs[k].len = ChunkLen(n, k)
                    /\ fs[k].payload =
                          <<Seg(i, subprotoMaxFrameSize * (k - 1),
                                ChunkLen(n, k))>>
              /\ (WritesDone /\ connOpen) =>
                    Len(fs) = (n + subprotoMaxFrameSize - 1)
                                  \div subprotoMaxFrameSize
    /\ WritesDone => sendNbUnacked = Sum(writes)

\* a Write of 20000 bytes has been sent as frames of 16384 and 3616 bytes
C4_Witness ==
    /\ WritesDone
    /\ connOpen
    /\ Len(writes) >= 1
    /\ writes[1] = 20000
    /\ Len(FramesOf(1)) = 2
    /\ FramesOf(1)[1].len = 16384
    /\ FramesOf(1)[2].len = 3616
    /\ sendNbUnacked = Sum(writes)

\* the counts carried by the Ack messages on the wire, in order
WireAcks ==
    LET acks == SelectSeq(wire, LAMBDA m : m.tag = subprotoTagAck)
    IN  [i \in 1..Len(acks) |-> acks[i].val]

RECURSIVE AckRule(_, _, _, _)
\* the flow-control rule applied to Data frames of lengths lens, starting
\* from u unacknowledged and a acknowledged bytes: after each frame, if
\* more than 2 * 16384 bytes are unacknowledged, acknowledge all of them
AckRule(lens, u, a, acks) ==
    IF lens = <<>> THEN [unacked |-> u, acked |-> a, acks |-> acks]
    ELSE IF u + Head(lens) - a > 32768
         THEN AckRule(Tail(lens), u + Head(lens), u + Head(lens),
                      Append(acks, u + Head(lens)))
         ELSE AckRule(Tail(lens), u + Head(lens), a, acks)

\* Conn.read is between two frames, or ended other than inside writeAck
BetweenFrames ==
    \/ rpc \in {"recv", "switch"}
    \/ rpc = "done" /\ rwhy \in {"transport", "protocol"}

\* C5: whenever the inbound loop has finished the frames it received, the
\* Ack frames emitted (on a transport that accepts messages) and the two
\* receive counters are those of the rule applied after every Data frame:
\* one Ack carrying receive-unacknowledged, which receive-acknowledged then
\* equals, when the difference exceeds 32768, nothing otherwise; frames
\* that are not Data add no Ack.
C5_AckRule ==
    LET e == AckRule(rcvd, 0, 0, <<>>) IN
    /\ Len(WireAcks) <= Len(e.acks)
    /\ \A i \in 1..Len(WireAcks) : WireAcks[i] = e.acks[i]
    /\ BetweenFrames =>
          /\ recvNbUnacked = e.unacked
          /\ recvNbAcked = e.acked
          /\ connOpen => WireAcks = e.acks

\* an Ack was emitted after the third Data frame and the loop went on
C5_Witness ==
    /\ rpc = "recv"
    /\ connOpen
    /\ Len(rcvd) = 3
    /\ Len(WireAcks) = 1
    /\ WireAcks[1] = recvNbUnacked
    /\ recvNbAcked = recvNbUnacked
    /\ recvNbUnacked > 32768

\* C6: when the first frame is not a Success frame (Data, Ack or an
\* unknown tag), Dial fails: no Conn is returned, the connection is never
\* marked connected, no session identifier is stored and neither
\* goroutine is ever started.
C6_HandshakeRejects ==
    (hsFrame # NoFrame /\ hsFrame.tag # subprotoTagSuccess) =>
        /\ phase = "failed"
        /\ ~connected
        /\ sessionID = NoID
        /\ rpc = "idle"
        /\ wpc = "idle"

\* Dial read a Data frame first and failed
C6_Witness ==
    /\ hsFrame.tag = subprotoTagData
    /\ hsFrame.len <= subprotoMaxFrameSize
    /\ phase = "failed"

\* the step in which readFrame's switch decodes the frame just received
SwitchStep == rpc = "switch" /\ rpc' # "switch"

\* the step in which Dial's readFrame decodes the first frame
DialStep == phase = "handshaking" /\ hsFrame' # hsFrame

\* C7: decoding a Data or Success frame whose length field exceeds 16384
\* fails (Dial fails, or the inbound loop ends with a protocol error) and
\* changes nothing else: no byte reaches the receive stream, no counter
\* changes, the session identifier and the connected flag are not set by
\* the frame, and no Ack is emitted for it.
C7_OversizedRejected ==
    [][ /\ ( /\ SwitchStep
             /\ rfr.tag \in {subprotoTagData, subprotoTagSuccess}
             /\ rfr.len > 16384 ) =>
                 /\ rpc' = "done"
                 /\ rwhy' = "protocol"
                 /\ UNCHANGED <<readOut, rcvd, rrem, recvNbAcked,
                                recvNbUnacked, sendNbAcked, sendNbUnacked,
                                sessionID, connected, wire, wlock>>
        /\ ( /\ DialStep
             /\ hsFrame'.tag \in {subprotoTagData, subprotoTagSuccess}
             /\ hsFrame'.len > 16384 ) =>
                 /\ phase' = "failed"
                 /\ rpc' = "idle"
                 /\ wpc' = "idle"
                 /\ UNCHANGED <<readOut, rcvd, rrem, recvNbAcked,
                                recvNbUnacked, sendNbAcked, sendNbUnacked,
                                sessionID, connected, wire, wlock>> ]_vars

\* the inbound loop ended on an oversized Data frame that followed a
\* Data frame it had delivered
C7_Witness ==
    /\ rpc = "done"
    /\ rwhy = "protocol"
    /\ rfr.tag = subprotoTagData
    /\ rfr.len > 16384
    /\ Len(rcvd) = 1
    /\ recvNbUnacked = rcvd[1]
    /\ Total(readOut) = rcvd[1]

\* C8: on a connected connection a frame whose tag is none of Success,
\* Data, Ack changes nothing: the four counters, the session identifier,
\* the receive stream and the wire stay as they are, and both loops stay
\* where they were, the inbound one back at its receive.
C8_UnknownTagIgnored ==
    [][ ( /\ SwitchStep
          /\ rfr.tag \notin {1, 4, 7} ) =>
              /\ rpc' = "recv"
              /\ UNCHANGED <<rwhy, readOut, rcvd, rrem, recvNbAcked,
                             recvNbUnacked, sendNbAcked, sendNbUnacked,
                             sessionID, connected, wire, wlock, outVars,
                             wrVars, rdVars>> ]_vars

\* an unknown-tag frame was ignored and the inbound loop waits for the
\* next frame, the outbound loop for the next Write
C8_Witness ==
    /\ rpc = "recv"
    /\ rfr.tag = UnknownTag
    /\ nrecv = 2
    /\ Len(rcvd) = 1
    /\ wpc = "wait"
    /\ connOpen

\* the receive stream: what successive Read calls returned is the
\* concatenation of the accepted Data payloads in receive order, complete
\* whenever the inbound loop is between frames
ReadStreamExact ==
    /\ IsPrefix(readOut, Buffers(rpay, 1))
    /\ BetweenFrames => readOut = Buffers(rpay, 1)

\* C9: the bytes returned by successive Read calls are exactly the
\* concatenation, in receive order, of the payloads of the Data frames
\* received after the handshake, and SessionID() returns the identifier
\* of the handshake Success frame.
C9_ReadStreamAndSessionID ==
    /\ ReadStreamExact
    /\ phase = "connected" => SessionID = hsFrame.sid

\* C10: once the handshake Success frame has set the session identifier,
\* no later step changes it, whatever the peer sends.
C10_SessionIDImmutable ==
    [][ phase = "connected" => sessionID' = sessionID ]_vars

\* C11: with a peer that acknowledges only bytes it was sent, in every
\* reachable state receive-unacknowledged >= receive-acknowledged and
\* send-unacknowledged >= send-acknowledged, also between the completion
\* of a Data message and the increment of send-unacknowledged.
C11_CountersOrdered ==
    peerHonest =>
        /\ recvNbUnacked >= recvNbAcked
        /\ sendNbUnacked >= sendNbAcked

\* the receive half of C11, which holds for every peer
RecvCountersOrdered == recvNbUnacked >= recvNbAcked

\* C12: once the outbound loop has terminated, every Write call in
\* progress or begun afterwards returns to its caller (with an error);
\* it neither stays blocked forever nor crashes the process.
C12_WriteAfterLoopEnd ==
    \A w \in Writers :
        (wpc = "done" /\ wr[w].pc # "idle")
            ~> (wr[w].pc = "idle" /\ ~crashed)

\* the Write calls with bytes to give whose announcement was received
Announced ==
    {w \in Writers : wr[w].pc \in {"pipe", "offer"} /\ wr[w].len > 0}

\* bytes of the announced count that writeFrame has still to take from
\* the send pipe
StillToTake == IF wpc = "copy" THEN nb - (nbLimit - fleft) ELSE nb

\* C13: with concurrent Write calls, no Data frame mixes bytes of two
\* calls, the bytes of each call are one contiguous run on the wire,
\* starting at its first byte, and the count writeFrame took from the
\* channel belongs to the one call whose bytes it then reads from the
\* pipe.
C13_WritesNotInterleaved ==
    /\ \A i \in 1..Len(WireData) : Len(WireData[i].payload) <= 1
    /\ Len(fbuf) <= 1
    /\ LET p == Payloads(WireData) IN
       /\ \A i, j \in 1..Len(p) : p[i].id = p[j].id => i = j
       /\ \A i \in 1..Len(p) : p[i].from = 0 /\ p[i].len <= writes[p[i].id]
    /\ Cardinality(Announced) <= 1
    /\ wpc \in {"open", "copy"} =>
          \E w \in Writers :
             /\ Announced = {w}
             /\ wr[w].len - wr[w].off = StillToTake

\* two overlapping Write calls were transmitted, the one that began
\* second first
C13_Witness ==
    /\ overlap
    /\ WritesDone
    /\ connOpen
    /\ writes = <<20000, 5>>
    /\ Len(WireData) = 3
    /\ Payloads(WireData) = <<Seg(2, 0, 5), Seg(1, 0, 20000)>>

\* the transport has been closed, by either side, or the process died
Stopped == ~connOpen \/ chClosed \/ crashed

\* C14: while the transport stays open and accepts messages, every Write
\* call, of any length including 0, eventually returns.
C14_WriteReturns ==
    \A w \in Writers :
        (wr[w].pc # "idle") ~> (wr[w].pc = "idle" \/ Stopped)

\* the part of C14 that holds: a Write of at least one byte returns
WriteOfBytesReturns ==
    \A w \in Writers :
        (wr[w].pc # "idle" /\ wr[w].len > 0)
            ~> (wr[w].pc = "idle" \/ Stopped)

\* C15: once the transport is closed under a connected Conn, both
\* goroutines eventually end, whatever the callers do or do not do.
C15_LoopsEndAfterClosure ==
    (Live /\ ~connOpen) ~> ((rpc = "done" /\ wpc = "done") \/ crashed)

\* the inbound half of C15 when the loop is not handing bytes to Read
InboundEndsAfterClosure ==
    (Live /\ ~connOpen) ~> (rpc \in {"done", "copy"} \/ crashed)

\* the step decodes an Ack frame whose count is below the one of the
\* Ack frame before it
AckRegresses ==
    SwitchStep /\ rfr.tag = subprotoTagAck /\ rfr.val < sendNbAcked

\* C16 (amended): no step lowers receive-acknowledged, receive-
\* unacknowledged or send-unacknowledged, so Received() never goes
\* backwards; send-acknowledged, and with it Sent(), is lowered by no
\* step except the decoding of an Ack frame that carries less than the
\* Ack frame before it.
C16_MonotonicUnlessAckRegresses ==
    [][ /\ recvNbAcked' >= recvNbAcked
        /\ recvNbUnacked' >= recvNbUnacked
        /\ sendNbUnacked' >= sendNbUnacked
        /\ Received' >= Received
        /\ ~AckRegresses => (sendNbAcked' >= sendNbAcked /\ Sent' >= Sent)
        /\ AckRegresses => Sent' = rfr.val ]_vars

\* all four counters have risen: bytes were received, 20000 bytes sent
\* in two frames and acknowledged by the peer
C16_Witness ==
    /\ rpc = "recv"
    /\ rfr = Frame(subprotoTagAck, 0, NoID, 20000)
    /\ Sent = 20000
    /\ sendNbUnacked = 20000
    /\ recvNbUnacked > 0

\* C16: no step lowers any of the four byte counters, whatever frames
\* the peer sends, so Sent() and Received() never go backwards.
C16_CountersMonotonic ==
    [][ /\ recvNbAcked' >= recvNbAcked
        /\ recvNbUnacked' >= recvNbUnacked
        /\ sendNbAcked' >= sendNbAcked
        /\ sendNbUnacked' >= sendNbUnacked
        /\ Sent' >= Sent
        /\ Received' >= Received ]_vars

\* C17 (amended): every counter is written by one loop only: receive-
\* acknowledged, receive-unacknowledged and send-acknowledged by steps
\* of the inbound loop (send-acknowledged when it decodes an Ack frame),
\* send-unacknowledged by steps of the outbound loop.
C17_SingleWriterPerCounter ==
    [][ /\ ~UNCHANGED <<recvNbAcked, recvNbUnacked, sendNbAcked>> => readLoop
        /\ sendNbUnacked' # sendNbUnacked => writeLoop
        /\ readLoop => UNCHANGED sendNbUnacked
        /\ writeLoop => UNCHANGED <<recvNbAcked, recvNbUnacked, sendNbAcked>>
        /\ sendNbAcked' # sendNbAcked =>
              (readFrameSwitch /\ rfr.tag = subprotoTagAck) ]_vars

\* both loops have written their counters: the outbound loop counted a
\* frame it sent, the inbound loop a Data frame and the peer's Ack
C17_Witness ==
    /\ sendNbUnacked = 5
    /\ sendNbAcked = 5
    /\ recvNbUnacked = 5
    /\ rfr.tag = subprotoTagAck
    /\ rpc = "recv"
    /\ wpc = "wait"

\* C17: the receive counters are written only by steps of the inbound
\* loop and the send counters only by steps of the outbound loop.
C17_CountersOwned ==
    [][ /\ ~UNCHANGED <<recvNbAcked, recvNbUnacked>> => readLoop
        /\ ~UNCHANGED <<sendNbAcked, sendNbUnacked>> => writeLoop
        /\ readLoop => UNCHANGED <<sendNbAcked, sendNbUnacked>>
        /\ writeLoop => UNCHANGED <<recvNbAcked, recvNbUnacked>> ]_vars

\* a loop is in the middle of sending a message
InboundSending == rpc = "ackw"
OutboundSending == wpc \in {"copy", "close"}

C19_CloseWriteSafe == ~crashed

\* C20: the engine never counts or acknowledges bytes the callers have
\* not taken through Read: receive-unacknowledged, receive-acknowledged
\* and the count of every Ack message sent are at most the number of
\* bytes Read calls returned.
C20_AcksWithinConsumed ==
    /\ recvNbUnacked <= Total(readOut)
    /\ recvNbAcked <= Total(readOut)
    /\ \A i \in 1..Len(WireAcks) : WireAcks[i].val <= Total(readOut)

\* what does hold: the counters exceed the bytes Read calls returned by
\* no more than the bytes that accepted Data frames announced but did
\* not hold
CountedWithinAnnounced ==
    /\ recvNbAcked <= recvNbUnacked
    /\ recvNbUnacked <= Total(readOut) + (Sum(rcvd) - Sum(rpay))

====
